---- MODULE Spec2Model ----
(***************************************************************************)
(* Timeline reconstruction of forensic-gps-suite: timestamp resolution,    *)
(* timezone normalisation, timeline assembly, movement analysis and gap    *)
(* detection, as state machines over the Python functions' inputs.         *)
(*                                                                         *)
(* Modelling conventions                                                   *)
(*   - Python None is <<>> and a present value v is <<v>>.                 *)
(*   - A datetime is [wall, tz]: wall in whole seconds since datetime.min, *)
(*     tz = None (naive) or Some(utcoffset in seconds) (aware).            *)
(*   - The representable datetimes are 0 .. DtMax seconds, the scaled      *)
(*     analogue of datetime.min .. datetime.max.                           *)
(*   - An EXIF timestamp string is a record naming its date separator, its *)
(*     minute and second fields and its offset suffix; an ISO string is    *)
(*     "" (<<>>) or <<[wall, sfx]>> with sfx the rendered offset suffix.   *)
(*   - An exception is a result [exc |-> name]; a normal return has        *)
(*     exc = "".                                                           *)
(***************************************************************************)
EXTENDS Integers, Sequences, FiniteSets, TLC

VARIABLES pc, all_rows, opts, timeline, segments, gaps, call, ret

vars == <<pc, all_rows, opts, timeline, segments, gaps, call, ret>>

(* ------------------------------ bounds --------------------------------- *)

\* Longest list of records handed to the timeline pipeline.
MaxRows == 3

\* Last representable minute: datetimes range over 0 .. 60*MaxMinute+59 s.
MaxMinute == 2
MaxDupRows == 4

DtMax == 60 * MaxMinute + 59

None == <<>>

Some(v) == <<v>>

Ok(v) == [exc |-> "", val |-> v]

Raise(e) == [exc |-> e, val |-> None]

Abs(n) == IF n < 0 THEN -n ELSE n

(* ------------------------- dictionaries -------------------------------- *)

\* dict.get(k, default)
Get(r, k, default) == IF k \in DOMAIN r THEN r[k] ELSE default

\* d[k] = v on a copy of d
Put(r, k, v) == (k :> v) @@ r

\* d.update(e) on a copy of d
Update(r, e) == e @@ r

\* The dictionary without key k.
Without(r, k) == [x \in DOMAIN r \ {k} |-> r[x]]

(* ------------------------- input value domains ------------------------- *)

\* Minute fields of the raw timestamps that are enumerated.
Minutes == 0 .. MaxMinute

\* Numeric UTC offsets as written in a string: sign, hours, minutes.
Offset(sign, hh, mm) == [sign |-> sign, hh |-> hh, mm |-> mm]

OffsetSeconds(o) == (IF o.sign = "+" THEN 1 ELSE -1) * (o.hh * 3600 + o.mm * 60)

\* A raw EXIF timestamp "YYYY<sep>MM<sep>DD HH:MM:SS[<offset>]".
RawDt(sep, min, sec, off, colon) ==
    [kind |-> "dt", sep |-> sep, min |-> min, sec |-> sec, off |-> off, colon |-> colon]

RawEmpty == [kind |-> "empty", sep |-> ":", min |-> 0, sec |-> 0, off |-> None, colon |-> FALSE]

\* A non-empty string matching none of EXIF_DT_PATTERNS.
RawJunk == [kind |-> "junk", sep |-> ":", min |-> 0, sec |-> 0, off |-> None, colon |-> FALSE]

(* ----------------------- datetime library model ------------------------ *)

\* datetime.strptime's %z: minutes 00..59 and |offset| < 24 h, otherwise
\* ValueError (caught by the callers' try/except).
StrptimeOffsetOk(o) == o.mm <= 59 /\ o.hh * 60 + o.mm < 24 * 60

\* d.astimezone(timezone.utc): the UTC wall clock, OverflowError outside
\* datetime.min .. datetime.max.
astimezone_utc(d) ==
    LET u == d.wall - d.tz[1]
    IN IF u < 0 \/ u > DtMax THEN Raise("OverflowError")
       ELSE Ok([wall |-> u, tz |-> Some(0)])

\* datetime.isoformat(timespec="seconds"): wall clock plus "+HH:MM" suffix.
isoformat(d) ==
    Some([wall |-> d.wall,
          sfx |-> IF d.tz = None THEN <<>>
                  ELSE LET o == d.tz[1]
                       IN <<IF o >= 0 THEN "+" ELSE "-",
                            Abs(o) \div 3600, (Abs(o) % 3600) \div 60>>])

\* str.replace("+00:00", "Z") on an ISO string.
replace_utc_Z(s) ==
    IF s # None /\ s[1].sfx = <<"+", 0, 0>>
    THEN Some([wall |-> s[1].wall, sfx |-> <<"Z">>])
    ELSE s

\* datetime.fromisoformat(s.replace("Z", "+00:00")) of a non-empty string.
fromisoformat(s) ==
    LET sfx == IF s[1].sfx = <<"Z">> THEN <<"+", 0, 0>> ELSE s[1].sfx
    IN [wall |-> s[1].wall,
        tz |-> IF sfx = <<>> THEN None
               ELSE Some((IF sfx[1] = "+" THEN 1 ELSE -1) * (sfx[2] * 3600 + sfx[3] * 60))]

\* datetime.timezone(offset): the offset must be a timedelta.
\* Mutant: a number of seconds is accepted in place of a timedelta.
timezone_of_seconds(arg) ==
    IF Abs(arg.v) >= 24 * 3600 THEN Raise("ValueError") ELSE Ok(arg.v)

timezone(arg) ==
    IF arg.type # "timedelta" THEN Raise("TypeError")
    ELSE IF Abs(arg.v) >= 24 * 3600 THEN Raise("ValueError")
    ELSE Ok(arg.v)

(* ------------------------ time_sources.py ------------------------------ *)

DEFAULT_PRIORITY ==
    << <<"GPSDateTime", "high">>, <<"DateTimeOriginal", "high">>,
       <<"MediaCreateDate", "medium">>, <<"TrackCreateDate", "medium">>,
       <<"CreateDate", "low">> >>

\* Python truthiness of a raw field value: "" (and None) are falsy.
Truthy(v) == v.kind # "empty"

\* Mutant: the scan runs on and the last populated field wins.
RECURSIVE resolve_scan_last_wins(_, _, _)
resolve_scan_last_wins(item, prio, i) ==
    IF i > Len(prio)
    THEN [datetime_raw |-> RawEmpty, time_source |-> "", time_confidence |-> "low"]
    ELSE LET rest == resolve_scan_last_wins(item, prio, i + 1)
         IN IF rest.time_source # "" THEN rest
            ELSE IF Truthy(Get(item, prio[i][1], RawEmpty))
            THEN [datetime_raw |-> item[prio[i][1]], time_source |-> prio[i][1],
                  time_confidence |-> prio[i][2]]
            ELSE rest

RECURSIVE resolve_scan(_, _, _)
resolve_scan(item, prio, i) ==
    IF i > Len(prio)
    THEN [datetime_raw |-> RawEmpty, time_source |-> "", time_confidence |-> "low"]
    ELSE IF Truthy(Get(item, prio[i][1], RawEmpty))
         THEN [datetime_raw |-> item[prio[i][1]], time_source |-> prio[i][1],
               time_confidence |-> prio[i][2]]
         ELSE resolve_scan(item, prio, i + 1)

resolve_best_timestamp(item) == resolve_scan(item, DEFAULT_PRIORITY, 1)

(* ----------------------- timezone_normalizer.py ------------------------ *)

\* TZ_OFFSET_RE.search(raw): a trailing [+-]HH:MM or [+-]HHMM.
TZ_OFFSET_RE_matches(raw) == raw.kind = "dt" /\ raw.off # None

\* _parse_dt: when the offset pattern matches (and the string holds a ":",
\* as every timestamp does) the last six characters are replaced by the
\* compact offset.  A colon offset is six characters long; a compact one is
\* five, so the sixth character removed is the last digit of the seconds.
\* strptime then tries the four patterns; the result is None or Some(datetime).
\* Mutant: an offset that strptime rejects is dropped and the rest parsed.
parse_dt_norm_drop_offset(raw) ==
    IF raw.kind # "dt" THEN None
    ELSE LET sec == IF TZ_OFFSET_RE_matches(raw) /\ ~raw.colon
                    THEN raw.sec \div 10 ELSE raw.sec
             wall == 60 * raw.min + sec
         IN IF raw.off # None /\ StrptimeOffsetOk(raw.off[1])
            THEN Some([wall |-> wall, tz |-> Some(OffsetSeconds(raw.off[1]))])
            ELSE Some([wall |-> wall, tz |-> None])

parse_dt_norm(raw) ==
    IF raw.kind # "dt" THEN None
    ELSE LET sec == IF TZ_OFFSET_RE_matches(raw) /\ ~raw.colon
                    THEN raw.sec \div 10 ELSE raw.sec
             wall == 60 * raw.min + sec
         IN IF raw.off = None THEN Some([wall |-> wall, tz |-> None])
            ELSE IF StrptimeOffsetOk(raw.off[1])
                 THEN Some([wall |-> wall, tz |-> Some(OffsetSeconds(raw.off[1]))])
                 ELSE None

\* An offset-bearing metadata value: "" or a string of one of these kinds:
\*   signed    "+02:00" / "+0200"      unsigned  "02:00"
\*   hours     "2"                     text      "UTC"
OffEmpty == [kind |-> "empty", o |-> Offset("+", 0, 0)]

OffStr(kind, o) == [kind |-> kind, o |-> o]

OFFSET_KEYS == <<"OffsetTimeOriginal", "OffsetTime", "TimeZone", "TimeZoneOffset">>

RECURSIVE offset_scan(_, _)
offset_scan(item, i) ==
    IF i > Len(OFFSET_KEYS) THEN None
    ELSE IF Get(item, OFFSET_KEYS[i], OffEmpty).kind # "empty"
         THEN Some(item[OFFSET_KEYS[i]])
         ELSE offset_scan(item, i + 1)

_offset_from_exif(item) == offset_scan(item, 1)

\* The try block of normalize_time (lines 93-108).  off_norm is the sign and
\* four digits when TZ_OFFSET_RE matches, else the string without colons;
\* int() of off_norm[1:3] and off_norm[3:5] raises ValueError on non-digits
\* and on "", and timezone() is then called with an int.
exif_offset_branch(d, dt_naive_iso, off) ==
    LET digits_ok == off.kind \in {"signed", "unsigned"}
        \* unsigned "HH:MM" -> off_norm "HHMM": sign -1, hh = int("HM"), mm = 0
        secs == IF off.kind = "signed" THEN OffsetSeconds(off.o)
                ELSE -(((off.o.hh % 10) * 10 + off.o.mm \div 10) * 3600)
        tz == timezone([type |-> "int", v |-> secs])
    IN IF ~digits_ok THEN Raise("ValueError")
       ELSE IF tz.exc # "" THEN Raise(tz.exc)
       ELSE LET d_loc == [wall |-> d.wall, tz |-> Some(tz.val)]
                u == astimezone_utc(d_loc)
            IN IF u.exc # "" THEN Raise(u.exc)
               ELSE Ok([dt_naive_iso |-> dt_naive_iso,
                        dt_local |-> isoformat(d_loc),
                        dt_utc |-> replace_utc_Z(isoformat(u.val)),
                        tz_info |-> <<"offset", off.o>>,
                        timezone_assumed |-> FALSE])

\* Mutant: the default timezone is assumed whatever the mode.
fallback_always_assume(dt_naive_iso, default_tz, assume_if_missing) ==
    [dt_naive_iso |-> dt_naive_iso, dt_local |-> dt_naive_iso, dt_utc |-> None,
     tz_info |-> <<"assumed:", default_tz>>, timezone_assumed |-> TRUE]

\* Mutant: the assumed mode reads the wall clock as UTC and fills dt_utc.
fallback_result_utc(dt_naive_iso, default_tz, assume_if_missing) ==
    IF ~assume_if_missing
    THEN [dt_naive_iso |-> dt_naive_iso, dt_local |-> None, dt_utc |-> None,
          tz_info |-> <<"unknown">>, timezone_assumed |-> FALSE]
    ELSE [dt_naive_iso |-> dt_naive_iso, dt_local |-> dt_naive_iso,
          dt_utc |-> Some([wall |-> dt_naive_iso[1].wall, sfx |-> <<"Z">>]),
          tz_info |-> <<"assumed:", default_tz>>, timezone_assumed |-> TRUE]

\* Lines 112-131: no offset is available.
fallback_result(dt_naive_iso, default_tz, assume_if_missing) ==
    IF ~assume_if_missing
    THEN [dt_naive_iso |-> dt_naive_iso, dt_local |-> None, dt_utc |-> None,
          tz_info |-> <<"unknown">>, timezone_assumed |-> FALSE]
    ELSE [dt_naive_iso |-> dt_naive_iso, dt_local |-> dt_naive_iso, dt_utc |-> None,
          tz_info |-> <<"assumed:", default_tz>>, timezone_assumed |-> TRUE]

normalize_time(datetime_raw, item, default_tz, assume_if_missing) ==
    LET p == parse_dt_norm(datetime_raw)
    IN IF p = None
       THEN Ok([dt_naive_iso |-> None, dt_local |-> None, dt_utc |-> None,
                tz_info |-> <<"unknown">>, timezone_assumed |-> FALSE])
       ELSE
       LET d == p[1]
           dt_naive_iso == isoformat([wall |-> d.wall, tz |-> None])
           off == _offset_from_exif(item)
           viaExif == IF off # None THEN exif_offset_branch(d, dt_naive_iso, off[1])
                      ELSE Raise("none")
       IN IF d.tz # None
          THEN LET u == astimezone_utc(d)
               IN IF u.exc # "" THEN Raise(u.exc)
                  ELSE Ok([dt_naive_iso |-> dt_naive_iso,
                           dt_local |-> isoformat(d),
                           dt_utc |-> replace_utc_Z(isoformat(u.val)),
                           tz_info |-> <<"embedded">>,
                           timezone_assumed |-> FALSE])
          ELSE IF off # None /\ viaExif.exc = "" THEN viaExif
          ELSE Ok(fallback_result(dt_naive_iso, default_tz, assume_if_missing))

(* ------------------------- datetime arithmetic ------------------------- *)

Aware(d) == d.tz # None

\* The instant two datetimes of the same kind are compared by.
Instant(d) == IF Aware(d) THEN d.wall - d.tz[1] ELSE d.wall

\* d1 == d2: False, without an exception, for an aware and a naive datetime.
DtEq(d1, d2) == Aware(d1) = Aware(d2) /\ Instant(d1) = Instant(d2)

\* d1 < d2 and d2 - d1 raise TypeError for an aware and a naive datetime.
Mixed(d1, d2) == Aware(d1) # Aware(d2)

DtSub(d2, d1) == IF Mixed(d1, d2) THEN Raise("TypeError") ELSE Ok(Instant(d2) - Instant(d1))

(* ------------------------- timeline_builder.py ------------------------- *)

tb_parse_iso(dt_iso) == IF dt_iso = None THEN None ELSE Some(fromisoformat(dt_iso))

\* The (rank, datetime) key of a row, or None for a row of the tail.
ScoreOf(r) ==
    LET dt_utc == tb_parse_iso(Get(r, "dt_utc", None))
        dt_nv == tb_parse_iso(Get(r, "dt_naive_iso", None))
    IN IF dt_utc # None THEN Some([rank |-> 0, dt |-> dt_utc[1]])
       ELSE IF dt_nv # None THEN Some([rank |-> 1, dt |-> dt_nv[1]])
       ELSE None

\* Mutant: the rank is left out of the key, the instants alone decide.
KeyLess_norank(k1, k2) == Instant(k1.dt) < Instant(k2.dt)

\* Mutant: within a rank the later datetime comes first.
KeyLess_latest_first(k1, k2) ==
    IF k1.rank # k2.rank THEN k1.rank < k2.rank
    ELSE IF DtEq(k1.dt, k2.dt) THEN FALSE
    ELSE Instant(k1.dt) > Instant(k2.dt)

\* Python's tuple order on the keys (x[0], x[1]).
KeyLess(k1, k2) ==
    IF k1.rank # k2.rank THEN k1.rank < k2.rank
    ELSE IF DtEq(k1.dt, k2.dt) THEN FALSE
    ELSE Instant(k1.dt) < Instant(k2.dt)

\* Comparing two keys raises when the ranks agree and the datetimes mix.
KeyRaises(k1, k2) == k1.rank = k2.rank /\ Mixed(k1.dt, k2.dt)

RECURSIVE InsertSorted(_, _)
InsertSorted(s, x) ==
    IF s = <<>> THEN <<x>>
    ELSE IF KeyLess(x.key, Head(s).key) THEN <<x>> \o s
    ELSE <<Head(s)>> \o InsertSorted(Tail(s), x)

\* list.sort(key=...): stable, ascending.
RECURSIVE StableSort(_)
StableSort(s) ==
    IF s = <<>> THEN <<>>
    ELSE InsertSorted(StableSort(SubSeq(s, 1, Len(s) - 1)), s[Len(s)])

\* The first loop of build_timeline: scored and tail, each in input order.
RECURSIVE ScoredFrom(_, _)
ScoredFrom(rows, i) ==
    IF i > Len(rows) THEN <<>>
    ELSE (IF ScoreOf(rows[i]) # None
          THEN <<[key |-> ScoreOf(rows[i])[1], r |-> rows[i]]>> ELSE <<>>)
         \o ScoredFrom(rows, i + 1)

RECURSIVE TailFrom(_, _)
TailFrom(rows, i) ==
    IF i > Len(rows) THEN <<>>
    ELSE (IF ScoreOf(rows[i]) = None THEN <<rows[i]>> ELSE <<>>)
         \o TailFrom(rows, i + 1)

\* Mutant: the index restarts at 1 in each of the two loops.
Stamp_restart(rs, start) == [i \in 1 .. Len(rs) |-> Put(rs[i], "timeline_index", i)]

\* nr = dict(r); nr["timeline_index"] = idx; idx += 1; out.append(nr)
Stamp(rs, start) == [i \in 1 .. Len(rs) |-> Put(rs[i], "timeline_index", start + i - 1)]

\* Mutant: nr = r, so the index is written into the caller's row.
InputAfter_alias(rows, out) ==
    [i \in 1 .. Len(rows) |-> out[CHOOSE k \in 1 .. Len(out) : out[k].path = rows[i].path]]

\* The caller's rows after the call: nr = dict(r) is a copy, so stamping nr
\* leaves r as it was (lines 47-49 and 53-56).
InputAfter(rows, out) == rows

\* build_timeline: the result (out) and the caller's rows after the call.
build_timeline(rows) ==
    LET scored == ScoredFrom(rows, 1)
        tail == TailFrom(rows, 1)
        sorted == StableSort(scored)
        srows == [i \in 1 .. Len(sorted) |-> sorted[i].r]
    IN IF \E i, j \in 1 .. Len(scored) : KeyRaises(scored[i].key, scored[j].key)
       THEN [exc |-> "TypeError", out |-> <<>>, rows |-> rows]
       ELSE LET out == Stamp(srows, 1) \o Stamp(tail, 1 + Len(srows))
            IN [exc |-> "", out |-> out, rows |-> InputAfter(rows, out)]

(* ------------------------- movement_analysis.py ------------------------ *)

\* Metres between two adjacent grid latitudes: on one meridian haversine_m
\* is R * |dphi|, here StepM metres per unit of latitude.
StepM == 50

haversine_m(lat1, lon1, lat2, lon2) == StepM * Abs(lat2 - lat1)

mv_parse_iso(dt_iso) == IF dt_iso = None THEN None ELSE Some(fromisoformat(dt_iso))

\* Mutant: each point contributes its best timestamp, whatever the other has.
mv_pick_pair_dt_best_of_each(a, b) ==
    LET a_utc == mv_parse_iso(Get(a, "dt_utc", None))
        b_utc == mv_parse_iso(Get(b, "dt_utc", None))
        a_nv == mv_parse_iso(Get(a, "dt_naive_iso", None))
        b_nv == mv_parse_iso(Get(b, "dt_naive_iso", None))
        a_best == IF a_utc # None THEN a_utc ELSE a_nv
        b_best == IF b_utc # None THEN b_utc ELSE b_nv
    IN IF a_best # None /\ b_best # None
       THEN [dt_a |-> a_best, dt_b |-> b_best,
             basis |-> IF a_utc # None THEN "dt_utc" ELSE "dt_naive_iso"]
       ELSE [dt_a |-> None, dt_b |-> None, basis |-> ""]

mv_pick_pair_dt(a, b) ==
    LET a_utc == mv_parse_iso(Get(a, "dt_utc", None))
        b_utc == mv_parse_iso(Get(b, "dt_utc", None))
        a_nv == mv_parse_iso(Get(a, "dt_naive_iso", None))
        b_nv == mv_parse_iso(Get(b, "dt_naive_iso", None))
    IN IF a_utc # None /\ b_utc # None
       THEN [dt_a |-> a_utc, dt_b |-> b_utc, basis |-> "dt_utc"]
       ELSE IF a_nv # None /\ b_nv # None
       THEN [dt_a |-> a_nv, dt_b |-> b_nv, basis |-> "dt_naive_iso"]
       ELSE [dt_a |-> None, dt_b |-> None, basis |-> ""]

\* a.get("dt_utc") or a.get("dt_naive_iso") or ""
ReportDt(a) ==
    IF Get(a, "dt_utc", None) # None THEN a.dt_utc
    ELSE Get(a, "dt_naive_iso", None)

\* speed_kmh >= limit and speed_kmh <= limit for speed = dist / delta_s * 3.6,
\* delta_s > 0, with both sides multiplied by 10 * delta_s.
SpeedGE(dist, delta_s, limit) == dist * 36 >= limit * 10 * delta_s

SpeedLE(dist, delta_s, limit) == dist * 36 <= limit * 10 * delta_s

\* Mutant: the stop test is made before the jump test.
Classify_stop_first(dist, delta_s, stop_speed_kmh, jump_speed_kmh, min_stop_duration_s) ==
    IF SpeedLE(dist, delta_s, stop_speed_kmh) /\ delta_s >= min_stop_duration_s
    THEN "stop"
    ELSE IF SpeedGE(dist, delta_s, jump_speed_kmh) THEN "jump"
    ELSE "move"

\* Lines 138-142.
Classify(dist, delta_s, stop_speed_kmh, jump_speed_kmh, min_stop_duration_s) ==
    IF SpeedGE(dist, delta_s, jump_speed_kmh) THEN "jump"
    ELSE IF SpeedLE(dist, delta_s, stop_speed_kmh) /\ delta_s >= min_stop_duration_s
    THEN "stop"
    ELSE "move"

\* round(speed_kmh, 3), kept in thousandths of a km/h.
SpeedMilli(dist, delta_s) == (2 * dist * 3600 + delta_s) \div (2 * delta_s)

\* Mutant: the distance is left blank when no elapsed time is reported.
Seg_distance_with_time(a, b, distance_m, delta_s, speed_kmh, movement, dt_basis) ==
    [from_index |-> a.timeline_index, to_index |-> b.timeline_index,
     from_dt |-> ReportDt(a), to_dt |-> ReportDt(b),
     distance_m |-> IF delta_s = None THEN None ELSE distance_m,
     delta_s |-> delta_s, speed_kmh |-> speed_kmh,
     movement |-> movement, dt_basis |-> dt_basis]

Seg(a, b, distance_m, delta_s, speed_kmh, movement, dt_basis) ==
    [from_index |-> a.timeline_index, to_index |-> b.timeline_index,
     from_dt |-> ReportDt(a), to_dt |-> ReportDt(b),
     distance_m |-> distance_m, delta_s |-> delta_s, speed_kmh |-> speed_kmh,
     movement |-> movement, dt_basis |-> dt_basis]

\* Mutant: only a pair of identical timestamps is left unclassified.
NotElapsed_zero(delta_s) == delta_s = 0

\* Line 122: no time has passed from a to b.
NotElapsed(delta_s) == delta_s <= 0

\* One iteration of the loop of analyze_movement: the Segment, or the
\* exception raised by the subtraction.
segment_of(a, b, stop_speed_kmh, jump_speed_kmh, min_stop_duration_s) ==
    LET lat1 == Get(a, "lat", None)
        lon1 == Get(a, "lon", None)
        lat2 == Get(b, "lat", None)
        lon2 == Get(b, "lon", None)
    IN IF lat1 = None \/ lon1 = None \/ lat2 = None \/ lon2 = None
       THEN Ok(Seg(a, b, None, None, None, "unknown", ""))
       ELSE
       LET dist == haversine_m(lat1[1], lon1[1], lat2[1], lon2[1])
           p == mv_pick_pair_dt(a, b)
       IN IF p.dt_a = None \/ p.dt_b = None
          THEN Ok(Seg(a, b, Some(dist), None, None, "unknown", ""))
          ELSE
          LET d == DtSub(p.dt_b[1], p.dt_a[1])
          IN IF d.exc # "" THEN Raise(d.exc)
             ELSE IF NotElapsed(d.val)
             THEN Ok(Seg(a, b, Some(dist), Some(d.val), None, "unknown", p.basis))
             ELSE Ok(Seg(a, b, Some(dist), Some(d.val), Some(SpeedMilli(dist, d.val)),
                         Classify(dist, d.val, stop_speed_kmh, jump_speed_kmh,
                                  min_stop_duration_s),
                         p.basis))

analyze_movement(tl, stop_speed_kmh, jump_speed_kmh, min_stop_duration_s) ==
    LET one(i) == segment_of(tl[i - 1], tl[i], stop_speed_kmh, jump_speed_kmh,
                             min_stop_duration_s)
    IN IF \E i \in 2 .. Len(tl) : one(i).exc # ""
       THEN Raise("TypeError")
       ELSE Ok([k \in 1 .. (IF Len(tl) = 0 THEN 0 ELSE Len(tl) - 1) |-> one(k + 1).val])

(* --------------------------- gap_detection.py -------------------------- *)

gap_parse_iso(dt_iso) == IF dt_iso = None THEN None ELSE Some(fromisoformat(dt_iso))

\* Mutant: the naive pair is tried before the UTC pair.
gap_pick_pair_dt_naive_first(a, b) ==
    LET a_utc == gap_parse_iso(Get(a, "dt_utc", None))
        b_utc == gap_parse_iso(Get(b, "dt_utc", None))
        a_nv == gap_parse_iso(Get(a, "dt_naive_iso", None))
        b_nv == gap_parse_iso(Get(b, "dt_naive_iso", None))
    IN IF a_nv # None /\ b_nv # None
       THEN [dt_a |-> a_nv, dt_b |-> b_nv, basis |-> "dt_naive_iso"]
       ELSE IF a_utc # None /\ b_utc # None
       THEN [dt_a |-> a_utc, dt_b |-> b_utc, basis |-> "dt_utc"]
       ELSE [dt_a |-> None, dt_b |-> None, basis |-> ""]

gap_pick_pair_dt(a, b) ==
    LET a_utc == gap_parse_iso(Get(a, "dt_utc", None))
        b_utc == gap_parse_iso(Get(b, "dt_utc", None))
        a_nv == gap_parse_iso(Get(a, "dt_naive_iso", None))
        b_nv == gap_parse_iso(Get(b, "dt_naive_iso", None))
    IN IF a_utc # None /\ b_utc # None
       THEN [dt_a |-> a_utc, dt_b |-> b_utc, basis |-> "dt_utc"]
       ELSE IF a_nv # None /\ b_nv # None
       THEN [dt_a |-> a_nv, dt_b |-> b_nv, basis |-> "dt_naive_iso"]
       ELSE [dt_a |-> None, dt_b |-> None, basis |-> ""]

\* Mutant: critical only at the threshold itself.
GapLevel_at(delta, major_gap_s, critical_gap_s) ==
    IF delta = critical_gap_s THEN "critical"
    ELSE IF delta >= major_gap_s THEN "major"
    ELSE "gap"

\* Lines 62-66.
GapLevel(delta, major_gap_s, critical_gap_s) ==
    IF delta >= critical_gap_s THEN "critical"
    ELSE IF delta >= major_gap_s THEN "major"
    ELSE "gap"

\* Mutant: the magnitude of the elapsed time is compared with gap_s.
IsGap_magnitude(delta, gap_s) == Abs(delta) > gap_s

\* Mutant: a pair whose elapsed time equals gap_s is reported too.
IsGap_incl(delta, gap_s) == delta >= gap_s

\* Line 59: the pair is skipped unless delta > gap_s.
IsGap(delta, gap_s) == ~(delta <= gap_s)

\* One iteration of the loop of detect_gaps: None (continue), Some(Gap), or
\* the exception raised by the subtraction.
gap_of(a, b, gap_s, major_gap_s, critical_gap_s) ==
    LET p == gap_pick_pair_dt(a, b)
    IN IF p.dt_a = None \/ p.dt_b = None THEN Ok(None)
       ELSE
       LET d == DtSub(p.dt_b[1], p.dt_a[1])
       IN IF d.exc # "" THEN Raise(d.exc)
          ELSE IF ~IsGap(d.val, gap_s) THEN Ok(None)
          ELSE Ok(Some([after_index |-> a.timeline_index,
                        before_index |-> b.timeline_index,
                        from_dt |-> ReportDt(a), to_dt |-> ReportDt(b),
                        gap_seconds |-> d.val,
                        gap_level |-> GapLevel(d.val, major_gap_s, critical_gap_s),
                        dt_basis |-> p.basis]))

RECURSIVE gaps_from(_, _, _, _, _)
gaps_from(tl, i, gap_s, major_gap_s, critical_gap_s) ==
    IF i > Len(tl) THEN <<>>
    ELSE gap_of(tl[i - 1], tl[i], gap_s, major_gap_s, critical_gap_s).val
         \o gaps_from(tl, i + 1, gap_s, major_gap_s, critical_gap_s)

detect_gaps(tl, gap_s, major_gap_s, critical_gap_s) ==
    IF \E i \in 2 .. Len(tl) :
          gap_of(tl[i - 1], tl[i], gap_s, major_gap_s, critical_gap_s).exc # ""
    THEN Raise("TypeError")
    ELSE Ok(gaps_from(tl, 2, gap_s, major_gap_s, critical_gap_s))

(* ------------------------ gps_forensic.py: main ------------------------ *)

\* Raw timestamps of the records handed to the pipeline: none, two naive
\* wall clocks, and two with an embedded offset whose UTC order (60 s, 0 s)
\* is the reverse of their wall-clock order (0 s, 60 s).
PipeTimes ==
    {RawEmpty,
     RawDt(":", 0, 0, None, FALSE),
     RawDt(":", 2, 0, None, FALSE),
     RawDt(":", 0, 0, Some(Offset("-", 0, 1)), TRUE),
     RawDt(":", 1, 0, Some(Offset("+", 0, 1)), TRUE)}

\* Coordinates: one of two grid latitudes on one meridian, or absent.
Located == {[lat |-> Some(0), lon |-> Some(0)], [lat |-> Some(1), lon |-> Some(0)]}

NoCoords == [lat |-> None, lon |-> None]

\* The records enumerated: every timestamp at every location, and a record
\* without coordinates that has a timestamp.
PipeInputs ==
    {[t |-> t, c |-> c] : t \in PipeTimes, c \in Located}
    \cup {[t |-> RawDt(":", 0, 0, None, FALSE), c |-> NoCoords]}

\* The record of one media file (process_batch, lines 174-197); path is the
\* file's position in the batch.
Row(path, t, c) ==
    [path |-> path, lat |-> c.lat, lon |-> c.lon,
     GPSDateTime |-> RawEmpty, DateTimeOriginal |-> t, MediaCreateDate |-> RawEmpty,
     TrackCreateDate |-> RawEmpty, CreateDate |-> RawEmpty,
     OffsetTimeOriginal |-> OffEmpty, OffsetTime |-> OffEmpty,
     TimeZone |-> OffEmpty, TimeZoneOffset |-> OffEmpty]

DefaultTz == "Europe/Berlin"

\* Thresholds the analyses are run with (km/h and seconds).
StopSpeeds == {1, 3}

JumpSpeeds == {3, 180}

MinStops == {60, 120}

GapThresholds == {0, 60}

MajorThresholds == {60, 120}

CriticalThresholds == {120}

\* Lines 590-603 for one row: r is updated in place, first with the
\* resolved source, then with the normalised times.
EnrichRow(r, default_tz, assume_if_missing) ==
    LET tsel == resolve_best_timestamp(r)
        r1 == Update(r, tsel)
        norm == normalize_time(Get(r1, "datetime_raw", RawEmpty), r1, default_tz,
                               assume_if_missing)
    IN IF norm.exc # "" THEN [exc |-> norm.exc, row |-> r1]
       ELSE [exc |-> "", row |-> Update(r1, norm.val)]

\* The enrichment loop over all_rows: every row enriched, or the rows as the
\* first exception leaves them.
EnrichAll(rows, default_tz, assume_if_missing) ==
    LET res == [i \in 1 .. Len(rows) |-> EnrichRow(rows[i], default_tz, assume_if_missing)]
        bad == {i \in 1 .. Len(rows) : res[i].exc # ""}
    IN IF bad = {} THEN [exc |-> "", rows |-> [i \in 1 .. Len(rows) |-> res[i].row]]
       ELSE LET k == CHOOSE i \in bad : \A j \in bad : i <= j
            IN [exc |-> res[k].exc,
                rows |-> [i \in 1 .. Len(rows) |->
                            IF i <= k THEN res[i].row ELSE rows[i]]]

Init ==
    /\ pc = "input"
    /\ all_rows = <<>>
    /\ opts = None
    /\ timeline = <<>>
    /\ segments = None
    /\ gaps = None
    /\ call = None
    /\ ret = None

\* The extraction stage delivers one more record.
AddRecord ==
    /\ pc = "input"
    /\ Len(all_rows) < MaxRows
    /\ \E x \in PipeInputs :
          all_rows' = Append(all_rows, Row(Len(all_rows) + 1, x.t, x.c))
    /\ UNCHANGED <<pc, opts, timeline, segments, gaps, call, ret>>

\* Timeline enrichment, lines 588-605.
Enrich ==
    /\ pc = "input"
    /\ \E court \in BOOLEAN :
          LET e == EnrichAll(all_rows, DefaultTz, ~court)
          IN /\ opts' = Some([court |-> court, tz |-> DefaultTz])
             /\ all_rows' = e.rows
             /\ pc' = IF e.exc = "" THEN "enriched" ELSE "crashed"
    /\ UNCHANGED <<timeline, segments, gaps, call, ret>>

\* timeline = build_timeline(enriched_rows), line 607.
BuildTimeline ==
    /\ pc = "enriched"
    /\ LET b == build_timeline(all_rows)
       IN /\ all_rows' = b.rows
          /\ timeline' = b.out
          /\ pc' = IF b.exc = "" THEN "built" ELSE "crashed"
    /\ UNCHANGED <<opts, segments, gaps, call, ret>>

\* segments = analyze_movement(timeline, ...), lines 610-615.
AnalyzeMovement ==
    /\ pc = "built"
    /\ \E stop \in StopSpeeds, jump \in JumpSpeeds, min_stop \in MinStops :
          segments' = Some([stop_speed_kmh |-> stop, jump_speed_kmh |-> jump,
                            min_stop_duration_s |-> min_stop,
                            ret |-> analyze_movement(timeline, stop, jump, min_stop)])
    /\ pc' = "movement"
    /\ UNCHANGED <<all_rows, opts, timeline, gaps, call, ret>>

\* gaps = detect_gaps(timeline, ...), lines 616-621.
DetectGaps ==
    /\ pc = "built"
    /\ \E gap_s \in GapThresholds, major \in MajorThresholds,
          critical \in CriticalThresholds :
          gaps' = Some([gap_s |-> gap_s, major_gap_s |-> major,
                        critical_gap_s |-> critical,
                        ret |-> detect_gaps(timeline, gap_s, major, critical)])
    /\ pc' = "gaps"
    /\ UNCHANGED <<all_rows, opts, timeline, segments, call, ret>>

Next == AddRecord \/ Enrich \/ BuildTimeline \/ AnalyzeMovement \/ DetectGaps

Spec == Init /\ [][Next]_vars

(* --------------- single calls of the normaliser functions -------------- *)

\* Offsets written in the enumerated strings: one minute east, one minute
\* west, and 24 hours, which strptime's %z rejects.
NormOffsets == {Offset("+", 0, 1), Offset("-", 0, 1), Offset("+", 24, 0)}

NormSeconds == {0, 45}

NormRaws ==
    {RawEmpty, RawJunk}
    \cup {RawDt(sep, m, sec, None, FALSE) : sep \in {":", "-"}, m \in Minutes, sec \in NormSeconds}
    \cup {RawDt(x.sep, x.m, x.sec, Some(x.o), x.colon) :
            x \in [sep : {":", "-"}, m : Minutes, sec : NormSeconds, o : NormOffsets,
                   colon : BOOLEAN]}

\* Values of an offset-bearing metadata field.
OffValues ==
    {OffEmpty, OffStr("signed", Offset("+", 0, 1)), OffStr("signed", Offset("-", 0, 1)),
     OffStr("unsigned", Offset("+", 0, 1)), OffStr("hours", Offset("+", 0, 0)),
     OffStr("text", Offset("+", 0, 0))}

NormItems == [OffsetTimeOriginal : OffValues, OffsetTime : OffValues]

NormTzs == {"Europe/Berlin", "UTC"}

InitNorm ==
    /\ pc = "call"
    /\ call \in [datetime_raw : NormRaws, item : NormItems, default_tz : NormTzs,
                 assume_if_missing : BOOLEAN]
    /\ ret = None
    /\ all_rows = <<>>
    /\ opts = None
    /\ timeline = <<>>
    /\ segments = None
    /\ gaps = None

\* One call of normalize_time.
NormalizeTime ==
    /\ pc = "call"
    /\ ret' = Some(normalize_time(call.datetime_raw, call.item, call.default_tz,
                                  call.assume_if_missing))
    /\ pc' = "return"
    /\ UNCHANGED <<all_rows, opts, timeline, segments, gaps, call>>

NextNorm == NormalizeTime

SpecNorm == InitNorm /\ [][NextNorm]_vars

(* ------------------ single calls of resolve_best_timestamp ------------- *)

\* Values of a timestamp field of a record: absent or one of two timestamps.
ResolveValues == {RawEmpty, RawDt(":", 0, 0, None, FALSE), RawDt(":", 1, 0, None, FALSE)}

ResolveItems ==
    [GPSDateTime : ResolveValues, DateTimeOriginal : ResolveValues,
     MediaCreateDate : ResolveValues, TrackCreateDate : ResolveValues,
     CreateDate : ResolveValues]

InitResolve ==
    /\ pc = "call"
    /\ call \in [item : ResolveItems]
    /\ ret = None
    /\ all_rows = <<>>
    /\ opts = None
    /\ timeline = <<>>
    /\ segments = None
    /\ gaps = None

\* One call of resolve_best_timestamp: the record is only read with get().
ResolveBest ==
    /\ pc = "call"
    /\ ret' = Some(Ok(resolve_best_timestamp(call.item)))
    /\ pc' = "return"
    /\ UNCHANGED <<all_rows, opts, timeline, segments, gaps, call>>

NextResolve == ResolveBest

SpecResolve == InitResolve /\ [][NextResolve]_vars

(* ------------------ gps_forensic.py: detect_duplicates ----------------- *)

\* parse_dt: strptime against the four formats, the string taken as it is;
\* %z reads "+HH:MM" and "+HHMM" alike.
parse_dt(dt) ==
    IF dt.kind # "dt" THEN None
    ELSE IF dt.off = None THEN Some([wall |-> 60 * dt.min + dt.sec, tz |-> None])
    ELSE IF StrptimeOffsetOk(dt.off[1])
    THEN Some([wall |-> 60 * dt.min + dt.sec, tz |-> Some(OffsetSeconds(dt.off[1]))])
    ELSE None

gf_haversine_m(lat1, lon1, lat2, lon2) == StepM * Abs(lat2 - lat1)

\* Lines 202-207: the rows with a parseable candidate, in input order.
RECURSIVE EnrichedFrom(_, _)
EnrichedFrom(rows, i) ==
    IF i > Len(rows) THEN <<>>
    ELSE LET r == rows[i]
             candidate == IF Truthy(Get(r, "DateTimeOriginal", RawEmpty))
                          THEN r.DateTimeOriginal
                          ELSE IF Truthy(Get(r, "CreateDate", RawEmpty)) THEN r.CreateDate
                          ELSE RawEmpty
             d == parse_dt(candidate)
         IN (IF d # None THEN <<[dt |-> d[1], row |-> r]>> ELSE <<>>)
            \o EnrichedFrom(rows, i + 1)

\* enriched.sort(key=lambda x: x[0]): stable, ascending by datetime.
RECURSIVE DupInsert(_, _)
DupInsert(s, x) ==
    IF s = <<>> THEN <<x>>
    ELSE IF Instant(x.dt) < Instant(Head(s).dt) THEN <<x>> \o s
    ELSE <<Head(s)>> \o DupInsert(Tail(s), x)

RECURSIVE DupSort(_)
DupSort(s) ==
    IF s = <<>> THEN <<>>
    ELSE DupInsert(DupSort(SubSeq(s, 1, Len(s) - 1)), s[Len(s)])

\* Mutant: a new record is compared with the first member of the cluster.
Anchor_first(current) == current[1]

\* Line 218: prev_dt, prev_row = current[-1].
Anchor(current) == current[Len(current)]

\* Mutant: a cluster is kept whatever its size.
CloseCluster_any(clusters, current) == Append(clusters, current)

\* Lines 225-226 and 229-230: a closed cluster is kept if it has two members.
CloseCluster(clusters, current) ==
    IF Len(current) > 1 THEN Append(clusters, current) ELSE clusters

\* The loop of lines 213-227 from position i on, then lines 229-230.
RECURSIVE ClusterPass(_, _, _, _, _, _)
ClusterPass(enr, i, clusters, current, dist_m, time_s) ==
    IF i > Len(enr) THEN CloseCluster(clusters, current)
    ELSE IF current = <<>>
    THEN ClusterPass(enr, i + 1, clusters, <<enr[i]>>, dist_m, time_s)
    ELSE LET prev == Anchor(current)
             dt_diff == Abs(Instant(enr[i].dt) - Instant(prev.dt))
             dist == gf_haversine_m(prev.row.lat[1], prev.row.lon[1],
                                    enr[i].row.lat[1], enr[i].row.lon[1])
         IN IF dt_diff <= time_s /\ dist <= dist_m
            THEN ClusterPass(enr, i + 1, clusters, Append(current, enr[i]), dist_m, time_s)
            ELSE ClusterPass(enr, i + 1, CloseCluster(clusters, current), <<enr[i]>>,
                             dist_m, time_s)

\* Mutant: the clusters are numbered from 0.
StampCluster_from_zero(cl, cid) ==
    [k \in 1 .. Len(cl) |->
       Update(cl[k].row, [cluster_id |-> cid - 1, cluster_size |-> Len(cl)])]

\* Lines 234-238: copies of the rows of one cluster with its id and size.
StampCluster(cl, cid) ==
    [k \in 1 .. Len(cl) |->
       Update(cl[k].row, [cluster_id |-> cid, cluster_size |-> Len(cl)])]

\* for cid, cl in enumerate(clusters, 1)
RECURSIVE DupRowsFrom(_, _)
DupRowsFrom(clusters, cid) ==
    IF cid > Len(clusters) THEN <<>>
    ELSE StampCluster(clusters[cid], cid) \o DupRowsFrom(clusters, cid + 1)

\* detect_duplicates: the sort raises TypeError when it has to compare an
\* aware datetime with a naive one, as it must when both kinds are present.
detect_duplicates(rows, dist_m, time_s) ==
    LET enriched == EnrichedFrom(rows, 1)
    IN IF \E i, j \in 1 .. Len(enriched) : Mixed(enriched[i].dt, enriched[j].dt)
       THEN Raise("TypeError")
       ELSE Ok(DupRowsFrom(ClusterPass(DupSort(enriched), 1, <<>>, <<>>, dist_m, time_s), 1))

\* Records handed to detect_duplicates: all located; timestamps at minutes
\* 0, 1, 2 in DateTimeOriginal, one in CreateDate only, one unparseable
\* DateTimeOriginal beside a good CreateDate, one with an offset.
DupInputs ==
    {[dto |-> RawDt(":", 0, 0, None, FALSE), cd |-> RawEmpty, lat |-> 0],
     [dto |-> RawDt(":", 1, 0, None, FALSE), cd |-> RawEmpty, lat |-> 0],
     [dto |-> RawDt(":", 1, 0, None, FALSE), cd |-> RawEmpty, lat |-> 1],
     [dto |-> RawDt(":", 2, 0, None, FALSE), cd |-> RawEmpty, lat |-> 1],
     [dto |-> RawDt(":", 2, 0, None, FALSE), cd |-> RawEmpty, lat |-> 2],
     [dto |-> RawEmpty, cd |-> RawDt("-", 1, 0, None, FALSE), lat |-> 0],
     [dto |-> RawJunk, cd |-> RawDt(":", 0, 0, None, FALSE), lat |-> 0],
     [dto |-> RawDt(":", 1, 0, Some(Offset("+", 0, 1)), FALSE), cd |-> RawEmpty, lat |-> 0]}

DupRow(path, x) ==
    Put(Row(path, x.dto, [lat |-> Some(x.lat), lon |-> Some(0)]), "CreateDate", x.cd)

\* --dup-dist (m) and --dup-time (s)
DupDists == {50}

DupTimes == {0, 60}

InitDup ==
    /\ pc = "input"
    /\ all_rows = <<>>
    /\ opts = None
    /\ timeline = <<>>
    /\ segments = None
    /\ gaps = None
    /\ call = None
    /\ ret = None

\* The extraction stage delivers one more record.
AddDupRecord ==
    /\ pc = "input"
    /\ Len(all_rows) < MaxDupRows
    /\ \E x \in DupInputs : all_rows' = Append(all_rows, DupRow(Len(all_rows) + 1, x))
    /\ UNCHANGED <<pc, opts, timeline, segments, gaps, call, ret>>

\* dups = detect_duplicates(all_rows, args.dup_dist, args.dup_time), line 659;
\* the rows are copied before they are stamped.
DetectDuplicates ==
    /\ pc = "input"
    /\ \E dist_m \in DupDists, time_s \in DupTimes :
          /\ call' = [dist_m |-> dist_m, time_s |-> time_s]
          /\ ret' = Some(detect_duplicates(all_rows, dist_m, time_s))
    /\ pc' = "dups"
    /\ UNCHANGED <<all_rows, opts, timeline, segments, gaps>>

NextDup == AddDupRecord \/ DetectDuplicates

SpecDup == InitDup /\ [][NextDup]_vars

(* ============================== claims ================================= *)

\* What a timeline point says about itself, read from its fields.
HasUtc(r) == Get(r, "dt_utc", None) # None

HasNaive(r) == Get(r, "dt_naive_iso", None) # None

HasCoords(r) == Get(r, "lat", None) # None /\ Get(r, "lon", None) # None

\* The UTC instant written in dt_utc ("...Z") and the wall clock written in
\* dt_naive_iso, in seconds.
UtcOf(r) == r.dt_utc[1].wall

NaiveOf(r) == r.dt_naive_iso[1].wall

SharedBasis(a, b) ==
    IF HasUtc(a) /\ HasUtc(b) THEN "dt_utc"
    ELSE IF HasNaive(a) /\ HasNaive(b) THEN "dt_naive_iso"
    ELSE ""

Elapsed(a, b) ==
    IF SharedBasis(a, b) = "dt_utc" THEN UtcOf(b) - UtcOf(a) ELSE NaiveOf(b) - NaiveOf(a)

Pairs == 1 .. (IF Len(timeline) = 0 THEN 0 ELSE Len(timeline) - 1)

\* C1: analyze_movement and detect_gaps take the elapsed time of an adjacent
\* pair from the two dt_utc values when both points have one, otherwise from
\* the two dt_naive_iso values when both have one; the two datetimes that are
\* subtracted are never one aware and one naive; a pair with no shared basis
\* gets a Segment with blank delta_s and dt_basis and no Gap; nothing raises.
C1_SameKindElapsed ==
    /\ pc = "movement" =>
         LET r == segments[1].ret
         IN /\ r.exc = ""
            /\ Len(r.val) = Cardinality(Pairs)
            /\ \A i \in Pairs :
                 LET a == timeline[i]
                     b == timeline[i + 1]
                     p == mv_pick_pair_dt(a, b)
                 IN /\ p.dt_a # None /\ p.dt_b # None => ~Mixed(p.dt_a[1], p.dt_b[1])
                    /\ IF HasCoords(a) /\ HasCoords(b) /\ SharedBasis(a, b) # ""
                       THEN /\ r.val[i].dt_basis = SharedBasis(a, b)
                            /\ r.val[i].delta_s = Some(Elapsed(a, b))
                       ELSE /\ r.val[i].dt_basis = ""
                            /\ r.val[i].delta_s = None
    /\ pc = "gaps" =>
         LET r == gaps[1].ret
         IN /\ r.exc = ""
            /\ \A i \in Pairs :
                 LET p == gap_pick_pair_dt(timeline[i], timeline[i + 1])
                 IN p.dt_a # None /\ p.dt_b # None => ~Mixed(p.dt_a[1], p.dt_b[1])
            /\ \A k \in 1 .. Len(r.val) :
                 LET g == r.val[k]
                 IN /\ g.after_index \in Pairs
                    /\ g.before_index = g.after_index + 1
                    /\ SharedBasis(timeline[g.after_index], timeline[g.before_index]) # ""
                    /\ g.dt_basis = SharedBasis(timeline[g.after_index], timeline[g.before_index])
                    /\ g.gap_seconds = Elapsed(timeline[g.after_index], timeline[g.before_index])

\* C1 witness: a timeline in which a UTC-bound point is followed by a
\* naive-only point (the Segment is on the naive basis) and a pair with
\* coordinates has no shared basis.
C1_Witness ==
    /\ pc = "movement"
    /\ \E i \in Pairs :
          /\ HasUtc(timeline[i]) /\ ~HasUtc(timeline[i + 1]) /\ HasNaive(timeline[i + 1])
          /\ segments[1].ret.val[i].dt_basis = "dt_naive_iso"
    /\ \E i \in Pairs :
          /\ HasCoords(timeline[i]) /\ HasCoords(timeline[i + 1])
          /\ SharedBasis(timeline[i], timeline[i + 1]) = ""
          /\ segments[1].ret.val[i].delta_s = None

Built == pc \in {"built", "movement", "gaps"}

\* C2: build_timeline returns as many records as it was given, and their
\* timeline_index values read in output order are 1, 2, ..., N.
C2_DenseIndex ==
    Built =>
      /\ Len(timeline) = Len(all_rows)
      /\ \A i \in 1 .. Len(timeline) : timeline[i].timeline_index = i

\* C2 witness: three records, one UTC-bound, one naive-only and one without
\* a timestamp, have been indexed.
C2_Witness ==
    /\ pc = "built"
    /\ Len(timeline) = 3
    /\ \E i, j, k \in 1 .. 3 :
          /\ HasUtc(timeline[i])
          /\ ~HasUtc(timeline[j]) /\ HasNaive(timeline[j])
          /\ ~HasUtc(timeline[k]) /\ ~HasNaive(timeline[k])

\* The class of a record in the sort order, and its position in the input.
ClassOf(r) == IF HasUtc(r) THEN 0 ELSE IF HasNaive(r) THEN 1 ELSE 2

InstantOf(r) == IF HasUtc(r) THEN UtcOf(r) ELSE IF HasNaive(r) THEN NaiveOf(r) ELSE 0

InputPos(r) == CHOOSE k \in 1 .. Len(all_rows) : all_rows[k].path = r.path

\* C3: in the output the UTC-bound records come first, ascending by UTC
\* instant, then the naive-only records, ascending by naive instant, then
\* the records with neither; records with equal keys, and the records of the
\* tail, keep their relative input order.
C3_SortOrder ==
    Built =>
      \A i, j \in 1 .. Len(timeline) :
        i < j =>
          LET a == timeline[i]
              b == timeline[j]
          IN /\ ClassOf(a) <= ClassOf(b)
             /\ ClassOf(a) = ClassOf(b) => InstantOf(a) <= InstantOf(b)
             /\ (ClassOf(a) = ClassOf(b) /\ InstantOf(a) = InstantOf(b))
                  => InputPos(a) < InputPos(b)

\* C3 witness: a timeline of three records that is not in input order, with
\* two UTC-bound records whose wall-clock order is the reverse of their UTC
\* order, and two records of equal key.
C3_Witness ==
    /\ pc = "built"
    /\ Len(timeline) = 3
    /\ \E i \in 1 .. 3 : timeline[i].path # i
    /\ \E i, j \in 1 .. 3 :
          /\ i < j /\ HasUtc(timeline[i]) /\ HasUtc(timeline[j])
          /\ NaiveOf(timeline[i]) > NaiveOf(timeline[j])
    /\ \E i, j \in 1 .. 3 :
          /\ i < j /\ ClassOf(timeline[i]) = ClassOf(timeline[j])
          /\ InstantOf(timeline[i]) = InstantOf(timeline[j])

\* C4: build_timeline leaves every input record as it was (no
\* timeline_index is added to it), and its output with timeline_index
\* removed holds each input record exactly once.
C4_InputUntouched ==
    [][(pc = "enriched" /\ pc' = "built") =>
         /\ all_rows' = all_rows
         /\ \A k \in 1 .. Len(all_rows) : "timeline_index" \notin DOMAIN all_rows'[k]
         /\ Len(timeline') = Len(all_rows)
         /\ \A k \in 1 .. Len(all_rows) :
              Cardinality({i \in 1 .. Len(timeline') :
                             Without(timeline'[i], "timeline_index") = all_rows[k]}) = 1]_vars

\* C4 witness: a timeline was built from three records, one of them without
\* a timestamp, in an order other than the input's.
C4_Witness ==
    /\ pc = "built"
    /\ Len(all_rows) = 3
    /\ \E k \in 1 .. 3 : ~HasUtc(all_rows[k]) /\ ~HasNaive(all_rows[k])
    /\ timeline[1].path # 1

\* Whether the speed of pair i of the timeline is computed, per the fields of
\* its two points.
SpeedComputed(i) ==
    /\ HasCoords(timeline[i]) /\ HasCoords(timeline[i + 1])
    /\ SharedBasis(timeline[i], timeline[i + 1]) # ""
    /\ Elapsed(timeline[i], timeline[i + 1]) > 0

\* speed >= limit and speed <= limit (km/h) for metres m in seconds t > 0.
AtLeastKmh(m, t, limit) == m * 3600 >= limit * 1000 * t

AtMostKmh(m, t, limit) == m * 3600 <= limit * 1000 * t

\* C5: every pair whose speed is computed is a jump if its speed is at least
\* jump_speed_kmh; otherwise a stop if its speed is at most stop_speed_kmh
\* and delta_s is at least min_stop_duration_s; otherwise a move. A pair
\* meeting the jump condition and the stop condition is a jump.
C5_JumpFirst ==
    pc = "movement" =>
      LET s == segments[1]
      IN /\ s.ret.exc = ""
         /\ \A i \in Pairs :
              SpeedComputed(i) =>
                LET g == s.ret.val[i]
                    m == g.distance_m[1]
                    t == g.delta_s[1]
                    jumps == AtLeastKmh(m, t, s.jump_speed_kmh)
                    stops == AtMostKmh(m, t, s.stop_speed_kmh) /\ t >= s.min_stop_duration_s
                IN /\ jumps => g.movement = "jump"
                   /\ (~jumps /\ stops) => g.movement = "stop"
                   /\ (~jumps /\ ~stops) => g.movement = "move"

\* C5 witness: with jump_speed_kmh <= stop_speed_kmh, a pair that meets the
\* jump condition and the stop condition has been classified as a jump.
C5_Witness ==
    /\ pc = "movement"
    /\ segments[1].jump_speed_kmh <= segments[1].stop_speed_kmh
    /\ \E i \in Pairs :
          LET g == segments[1].ret.val[i]
          IN /\ SpeedComputed(i)
             /\ AtLeastKmh(g.distance_m[1], g.delta_s[1], segments[1].jump_speed_kmh)
             /\ AtMostKmh(g.distance_m[1], g.delta_s[1], segments[1].stop_speed_kmh)
             /\ g.delta_s[1] >= segments[1].min_stop_duration_s
             /\ g.movement = "jump"

\* C6: a Segment has a movement of stop, move or jump and a speed_kmh exactly
\* when both points have coordinates, the pair shares a time basis and
\* delta_s > 0; every other Segment has movement unknown and blank speed_kmh,
\* with blank distance_m and delta_s too when a coordinate is missing; no
\* exception is raised.
C6_ClassifiedIffComputable ==
    pc = "movement" =>
      LET r == segments[1].ret
      IN /\ r.exc = ""
         /\ Len(r.val) = Cardinality(Pairs)
         /\ \A i \in Pairs :
              LET g == r.val[i]
              IN /\ SpeedComputed(i)
                      <=> (g.movement \in {"stop", "move", "jump"} /\ g.speed_kmh # None)
                 /\ ~SpeedComputed(i) => (g.movement = "unknown" /\ g.speed_kmh = None)
                 /\ ~(HasCoords(timeline[i]) /\ HasCoords(timeline[i + 1]))
                      => (g.distance_m = None /\ g.delta_s = None)

\* C6 witness: one pair with coordinates on both points whose elapsed time
\* is negative, and one pair with a point that has no coordinates; both
\* Segments are unknown.
C6_Witness ==
    /\ pc = "movement"
    /\ \E i \in Pairs :
          /\ HasCoords(timeline[i]) /\ HasCoords(timeline[i + 1])
          /\ SharedBasis(timeline[i], timeline[i + 1]) # ""
          /\ Elapsed(timeline[i], timeline[i + 1]) < 0
          /\ segments[1].ret.val[i].movement = "unknown"
    /\ \E i \in Pairs :
          /\ ~HasCoords(timeline[i + 1])
          /\ segments[1].ret.val[i].movement = "unknown"
          /\ segments[1].ret.val[i].distance_m = None

\* The pairs of the timeline for which a Gap is due under threshold gap_s.
GapPairs(gap_s) ==
    {i \in Pairs : /\ SharedBasis(timeline[i], timeline[i + 1]) # ""
                   /\ Elapsed(timeline[i], timeline[i + 1]) > gap_s}

\* C7: detect_gaps returns one Gap for each adjacent pair that shares a time
\* basis and whose elapsed time is strictly greater than gap_s, and no other;
\* its level is critical from critical_gap_s on, else major from major_gap_s
\* on, else gap; the Gaps are in timeline order and carry the indices of
\* their pair.
C7_GapsExactly ==
    pc = "gaps" =>
      LET o == gaps[1]
          r == o.ret
      IN /\ r.exc = ""
         /\ Len(r.val) = Cardinality(GapPairs(o.gap_s))
         /\ \A k \in 1 .. Len(r.val) :
              LET g == r.val[k]
                  e == Elapsed(timeline[g.after_index], timeline[g.before_index])
              IN /\ g.after_index \in GapPairs(o.gap_s)
                 /\ g.before_index = g.after_index + 1
                 /\ g.after_index = timeline[g.after_index].timeline_index
                 /\ g.gap_level = IF e >= o.critical_gap_s THEN "critical"
                                  ELSE IF e >= o.major_gap_s THEN "major"
                                  ELSE "gap"
         /\ \A k, l \in 1 .. Len(r.val) :
              k < l => r.val[k].after_index < r.val[l].after_index

\* C7 witness: a pair whose elapsed time equals a positive gap_s produced
\* nothing, and a pair whose elapsed time equals critical_gap_s produced a
\* critical Gap.
C7_Witness ==
    /\ pc = "gaps"
    /\ gaps[1].gap_s > 0
    /\ \E i \in Pairs :
          /\ SharedBasis(timeline[i], timeline[i + 1]) # ""
          /\ Elapsed(timeline[i], timeline[i + 1]) = gaps[1].gap_s
          /\ \A k \in 1 .. Len(gaps[1].ret.val) : gaps[1].ret.val[k].after_index # i
    /\ \E k \in 1 .. Len(gaps[1].ret.val) :
          /\ gaps[1].ret.val[k].gap_seconds = gaps[1].critical_gap_s
          /\ gaps[1].ret.val[k].gap_level = "critical"

LevelRank(level) == IF level = "gap" THEN 1 ELSE IF level = "major" THEN 2 ELSE 3

\* Elapsed times at and next to the thresholds, and the largest one.
ElapsedSamples(o) ==
    {e \in {o.gap_s + 1, o.major_gap_s - 1, o.major_gap_s, o.major_gap_s + 1,
            o.critical_gap_s - 1, o.critical_gap_s, o.critical_gap_s + 1, DtMax} :
       e > o.gap_s}

\* C8: under fixed thresholds, of two elapsed times that each produce a Gap
\* the larger never has the lower level (gap < major < critical), and every
\* elapsed time from critical_gap_s on is critical; so for the Gaps of one
\* run, and for elapsed times around the thresholds.
C8_SeverityMonotonic ==
    pc = "gaps" =>
      LET o == gaps[1]
          r == o.ret
      IN /\ r.exc = ""
         /\ \A k, l \in 1 .. Len(r.val) :
              r.val[k].gap_seconds <= r.val[l].gap_seconds
                => LevelRank(r.val[k].gap_level) <= LevelRank(r.val[l].gap_level)
         /\ \A e1, e2 \in ElapsedSamples(o) :
              e1 <= e2 => LevelRank(GapLevel(e1, o.major_gap_s, o.critical_gap_s))
                            <= LevelRank(GapLevel(e2, o.major_gap_s, o.critical_gap_s))
         /\ \A e \in ElapsedSamples(o) :
              e >= o.critical_gap_s
                => GapLevel(e, o.major_gap_s, o.critical_gap_s) = "critical"

\* C8 witness: one run produced two Gaps, the longer one of a higher level.
C8_Witness ==
    /\ pc = "gaps"
    /\ \E k, l \in 1 .. Len(gaps[1].ret.val) :
          /\ gaps[1].ret.val[k].gap_seconds < gaps[1].ret.val[l].gap_seconds
          /\ LevelRank(gaps[1].ret.val[k].gap_level) < LevelRank(gaps[1].ret.val[l].gap_level)

\* A call of normalize_time has returned a result dict.
Returned == pc = "return" /\ ret[1].exc = ""

\* The raw timestamp of the call is a well-formed one without an offset, and
\* none of the record's offset fields is populated.
NoOffsetAnywhere ==
    /\ call.datetime_raw.kind = "dt"
    /\ call.datetime_raw.off = None
    /\ \A i \in 1 .. Len(OFFSET_KEYS) : Get(call.item, OFFSET_KEYS[i], OffEmpty) = OffEmpty

\* C9: with assume_if_missing = false every result of normalize_time has
\* timezone_assumed = false and a tz_info that is not an assumed label; and
\* for a raw timestamp that parses, has no embedded offset, on a record with
\* no populated offset field, the call returns dt_utc = "", dt_local = "",
\* tz_info = "unknown" and a non-empty dt_naive_iso.
C9_CourtNeverGuesses ==
    (pc = "return" /\ ~call.assume_if_missing) =>
      /\ ret[1].exc = "" =>
           /\ ret[1].val.timezone_assumed = FALSE
           /\ ret[1].val.tz_info[1] # "assumed:"
      /\ NoOffsetAnywhere =>
           /\ ret[1].exc = ""
           /\ ret[1].val.dt_utc = None
           /\ ret[1].val.dt_local = None
           /\ ret[1].val.tz_info = <<"unknown">>
           /\ ret[1].val.dt_naive_iso # None

\* C9 witness: a call with assume_if_missing = false on a parsable timestamp
\* with no offset anywhere has returned tz_info = "unknown".
C9_Witness ==
    /\ Returned
    /\ ~call.assume_if_missing
    /\ NoOffsetAnywhere
    /\ ret[1].val.tz_info = <<"unknown">>
    /\ ret[1].val.dt_naive_iso # None

\* C10: every result of normalize_time with timezone_assumed = true has
\* dt_utc = "", dt_local equal to dt_naive_iso and tz_info = "assumed:" with
\* the default timezone of the call; a result with a dt_utc has
\* timezone_assumed = false.
C10_NoUtcFromAssumedZone ==
    Returned =>
      LET v == ret[1].val
      IN /\ v.timezone_assumed =>
              /\ v.dt_utc = None
              /\ v.dt_local = v.dt_naive_iso
              /\ v.tz_info = <<"assumed:", call.default_tz>>
         /\ v.dt_utc # None => v.timezone_assumed = FALSE

\* C10 witness: a call has returned timezone_assumed = true for a parsed
\* timestamp, and its default timezone is not the built-in default.
C10_Witness ==
    /\ Returned
    /\ ret[1].val.timezone_assumed
    /\ ret[1].val.dt_naive_iso # None
    /\ call.default_tz # DefaultTz

\* The offset fields of the record of the call are all empty.
NoOffsetField ==
    \A i \in 1 .. Len(OFFSET_KEYS) : Get(call.item, OFFSET_KEYS[i], OffEmpty) = OffEmpty

\* The call was made on a timestamp with a well-formed offset suffix.
EmbeddedCall ==
    /\ call.datetime_raw.kind = "dt"
    /\ call.datetime_raw.off # None
    /\ call.datetime_raw.off[1].hh < 24 /\ call.datetime_raw.off[1].mm < 60

\* The same call with the offset moved from the timestamp to OffsetTime.
SiblingByField ==
    normalize_time(RawDt(call.datetime_raw.sep, call.datetime_raw.min,
                         call.datetime_raw.sec, None, FALSE),
                   Put(call.item, "OffsetTime", OffStr("signed", call.datetime_raw.off[1])),
                   call.default_tz, call.assume_if_missing)

\* C11: a timestamp T with offset O as its suffix, and T without offset on a
\* record whose OffsetTime is O, give the same dt_utc and dt_naive_iso, with
\* tz_info "embedded" for the first and the offset for the second, and
\* timezone_assumed false for both.
C11_EmbeddedEqualsField ==
    (Returned /\ EmbeddedCall /\ call.datetime_raw.colon /\ NoOffsetField) =>
      /\ SiblingByField.exc = ""
      /\ SiblingByField.val.dt_utc = ret[1].val.dt_utc
      /\ SiblingByField.val.dt_naive_iso = ret[1].val.dt_naive_iso
      /\ ret[1].val.tz_info = <<"embedded">>
      /\ SiblingByField.val.tz_info = <<"offset", call.datetime_raw.off[1]>>
      /\ ~ret[1].val.timezone_assumed
      /\ ~SiblingByField.val.timezone_assumed

\* The same call with the offset suffix written without its colon.
SiblingCompact ==
    normalize_time(RawDt(call.datetime_raw.sep, call.datetime_raw.min,
                         call.datetime_raw.sec, call.datetime_raw.off, FALSE),
                   call.item, call.default_tz, call.assume_if_missing)

\* C12: a timestamp with the suffix "+HH:MM" and the same timestamp with
\* the suffix "+HHMM" (likewise "-") both parse and give the same
\* dt_naive_iso, dt_local and dt_utc.
C12_OffsetSyntaxesAgree ==
    (Returned /\ EmbeddedCall /\ call.datetime_raw.colon) =>
      /\ ret[1].val.dt_naive_iso # None
      /\ SiblingCompact.exc = ""
      /\ SiblingCompact.val.dt_naive_iso = ret[1].val.dt_naive_iso
      /\ SiblingCompact.val.dt_local = ret[1].val.dt_local
      /\ SiblingCompact.val.dt_utc = ret[1].val.dt_utc

\* The value _offset_from_exif takes from the record of the call is
\* populated and is not of the form +HH:MM, -HH:MM, +HHMM or -HHMM.
UnparsableOffsetField ==
    \E i \in 1 .. Len(OFFSET_KEYS) :
       /\ Get(call.item, OFFSET_KEYS[i], OffEmpty).kind \in {"unsigned", "hours", "text"}
       /\ \A j \in 1 .. (i - 1) : Get(call.item, OFFSET_KEYS[j], OffEmpty) = OffEmpty

\* C13: for a timestamp that parses without an embedded offset, on a record
\* whose offset value is not a signed numeric offset, normalize_time returns
\* dt_utc = "", with tz_info = "unknown" when assume_if_missing is false and
\* the assumed result when it is true; nothing is raised.
C13_UnparsableOffsetSentinel ==
    (/\ pc = "return"
     /\ call.datetime_raw.kind = "dt" /\ call.datetime_raw.off = None
     /\ UnparsableOffsetField) =>
      /\ ret[1].exc = ""
      /\ ret[1].val.dt_utc = None
      /\ ret[1].val.dt_naive_iso # None
      /\ IF call.assume_if_missing
         THEN /\ ret[1].val.timezone_assumed
              /\ ret[1].val.tz_info = <<"assumed:", call.default_tz>>
              /\ ret[1].val.dt_local = ret[1].val.dt_naive_iso
         ELSE /\ ~ret[1].val.timezone_assumed
              /\ ret[1].val.tz_info = <<"unknown">>
              /\ ret[1].val.dt_local = None

\* C13 witness: with assume_if_missing false, a call on a record whose
\* first populated offset field is an unsigned "HH:MM" has returned unknown.
C13_Witness ==
    /\ Returned
    /\ ~call.assume_if_missing
    /\ call.datetime_raw.kind = "dt" /\ call.datetime_raw.off = None
    /\ call.item.OffsetTimeOriginal = OffEmpty
    /\ call.item.OffsetTime.kind = "unsigned"
    /\ ret[1].val.tz_info = <<"unknown">>

\* The raw string of the call matches one of the accepted patterns.
RawParses ==
    /\ call.datetime_raw.kind = "dt"
    /\ call.datetime_raw.off # None
         => (call.datetime_raw.off[1].hh < 24 /\ call.datetime_raw.off[1].mm < 60)

\* C14: on a raw string that matches no accepted pattern, the empty string
\* included, normalize_time returns the all-empty result with tz_info =
\* "unknown" and timezone_assumed = false, raising nothing; and in every
\* result dt_naive_iso is non-empty exactly when the raw string parsed, so a
\* dt_utc or dt_local never comes without a dt_naive_iso.
C14_ParseFailureSentinel ==
    pc = "return" =>
      /\ ~RawParses =>
           /\ ret[1].exc = ""
           /\ ret[1].val = [dt_naive_iso |-> None, dt_local |-> None, dt_utc |-> None,
                            tz_info |-> <<"unknown">>, timezone_assumed |-> FALSE]
      /\ ret[1].exc = "" =>
           /\ ret[1].val.dt_naive_iso # None <=> RawParses
           /\ (ret[1].val.dt_utc # None \/ ret[1].val.dt_local # None)
                => ret[1].val.dt_naive_iso # None

\* C14 witness: a call on a timestamp whose offset suffix is out of range,
\* with assume_if_missing true, has returned the all-empty result.
C14_Witness ==
    /\ Returned
    /\ call.assume_if_missing
    /\ call.datetime_raw.kind = "dt" /\ ~RawParses
    /\ ret[1].val.dt_naive_iso = None
    /\ ret[1].val.tz_info = <<"unknown">>

\* The priority order and its confidences.
PriorityFields ==
    <<"GPSDateTime", "DateTimeOriginal", "MediaCreateDate", "TrackCreateDate", "CreateDate">>

PriorityConfidence == <<"high", "high", "medium", "medium", "low">>

\* The positions in the priority order whose field is populated in item.
Populated(item) == {i \in 1 .. Len(PriorityFields) : item[PriorityFields[i]] # RawEmpty}

\* C15: resolve_best_timestamp returns value, name and confidence of the
\* first populated field in the order GPSDateTime (high), DateTimeOriginal
\* (high), MediaCreateDate (medium), TrackCreateDate (medium), CreateDate
\* (low); with no field populated it returns datetime_raw = "", time_source
\* = "", time_confidence = "low"; it raises nothing and leaves the record
\* as it was.
C15_FirstPopulatedWins ==
    [][(pc = "call" /\ pc' = "return") =>
         /\ call' = call
         /\ ret'[1].exc = ""
         /\ IF Populated(call.item) = {}
            THEN ret'[1].val = [datetime_raw |-> RawEmpty, time_source |-> "",
                                time_confidence |-> "low"]
            ELSE LET i == CHOOSE k \in Populated(call.item) :
                             \A j \in Populated(call.item) : k <= j
                 IN ret'[1].val = [datetime_raw |-> call.item[PriorityFields[i]],
                                   time_source |-> PriorityFields[i],
                                   time_confidence |-> PriorityConfidence[i]]]_vars

\* C15 witness: on a record with MediaCreateDate and a different CreateDate
\* populated and nothing of higher priority, the call has returned
\* MediaCreateDate with confidence medium.
C15_Witness ==
    /\ pc = "return"
    /\ Populated(call.item) = {3, 5}
    /\ call.item.MediaCreateDate # call.item.CreateDate
    /\ ret[1].val.time_source = "MediaCreateDate"
    /\ ret[1].val.time_confidence = "medium"
    /\ ret[1].val.datetime_raw = call.item.MediaCreateDate

\* detect_duplicates has returned its list of rows.
DupReturned == pc = "dups" /\ ret[1].exc = ""

DupOut == ret[1].val

\* What detect_duplicates reads of input record i: its timestamp string,
\* whether that string is a timestamp, its instant and its latitude.
DupStamp(i) ==
    IF all_rows[i].DateTimeOriginal # RawEmpty THEN all_rows[i].DateTimeOriginal
    ELSE all_rows[i].CreateDate

DupParseable(i) ==
    /\ DupStamp(i).kind = "dt"
    /\ DupStamp(i).off # None => (DupStamp(i).off[1].hh < 24 /\ DupStamp(i).off[1].mm < 60)

DupInstant(i) ==
    60 * DupStamp(i).min + DupStamp(i).sec
      - (IF DupStamp(i).off = None THEN 0 ELSE OffsetSeconds(DupStamp(i).off[1]))

DupRecords == {i \in 1 .. Len(all_rows) : DupParseable(i)}

\* i comes before j in the time order (ties in input order), and j is the
\* next record after i in that order.
DupBefore(i, j) == DupInstant(i) < DupInstant(j) \/ (DupInstant(i) = DupInstant(j) /\ i < j)

DupNext(i, j) ==
    /\ i \in DupRecords /\ j \in DupRecords /\ DupBefore(i, j)
    /\ ~ \E k \in DupRecords : DupBefore(i, k) /\ DupBefore(k, j)

\* Records i and j are within both thresholds of each other.
DupClose(i, j) ==
    /\ Abs(DupInstant(j) - DupInstant(i)) <= call.time_s
    /\ StepM * Abs(all_rows[j].lat[1] - all_rows[i].lat[1]) <= call.dist_m

\* The cluster_id under which input record i is in the output, 0 if it is not.
DupIdOf(i) ==
    IF \E k \in 1 .. Len(DupOut) : DupOut[k].path = i
    THEN DupOut[CHOOSE k \in 1 .. Len(DupOut) : DupOut[k].path = i].cluster_id
    ELSE 0

\* C16: every row returned by detect_duplicates has cluster_size >= 2 and
\* shares its cluster_id with another returned row; a record that is not
\* within both thresholds of the record next to it in time on either side
\* is not in the output, the last record included.
C16_NoSingletonCluster ==
    DupReturned =>
      /\ \A k \in 1 .. Len(DupOut) :
           /\ DupOut[k].cluster_size >= 2
           /\ \E l \in 1 .. Len(DupOut) : l # k /\ DupOut[l].cluster_id = DupOut[k].cluster_id
      /\ \A i \in 1 .. Len(all_rows) :
           (~ \E j \in DupRecords :
                (DupNext(i, j) \/ DupNext(j, i)) /\ DupClose(i, j))
             => DupIdOf(i) = 0

\* C16 witness: a cluster was returned, and the last record in time order is
\* a parseable one left out of the output.
C16_Witness ==
    /\ DupReturned
    /\ Len(DupOut) >= 2
    /\ \E i \in DupRecords :
          /\ \A j \in DupRecords : j # i => DupBefore(j, i)
          /\ \E j \in DupRecords : DupNext(j, i)
          /\ DupIdOf(i) = 0

\* C17: two records next to each other in time order are in the same
\* cluster exactly when their time difference is <= dup_time_s and their
\* distance is <= dup_dist_m; the clusters are the maximal runs of two or
\* more such records, and records without a parseable timestamp are in none.
C17_ChainedToPredecessor ==
    DupReturned =>
      /\ \A i, j \in DupRecords :
           DupNext(i, j) => (DupClose(i, j) <=> (DupIdOf(i) # 0 /\ DupIdOf(i) = DupIdOf(j)))
      /\ \A i, j, k \in DupRecords :
           (DupBefore(i, k) /\ DupBefore(k, j) /\ DupIdOf(i) # 0 /\ DupIdOf(i) = DupIdOf(j))
             => DupIdOf(k) = DupIdOf(i)
      /\ \A i \in 1 .. Len(all_rows) : i \notin DupRecords => DupIdOf(i) = 0

\* C17 witness: a cluster of three records whose first and last members are
\* farther apart than dup_dist_m and than dup_time_s.
C17_Witness ==
    /\ DupReturned
    /\ \E i, j \in DupRecords :
          /\ DupIdOf(i) # 0 /\ DupIdOf(i) = DupIdOf(j)
          /\ Abs(DupInstant(j) - DupInstant(i)) > call.time_s
          /\ StepM * Abs(all_rows[j].lat[1] - all_rows[i].lat[1]) > call.dist_m

\* C18: the cluster_id values of the output are 1..K, in the order the
\* clusters are closed in the time-ordered pass; cluster_size is the number
\* of output rows with the same cluster_id; an input record is in the output
\* at most once; the output rows are copies, the input records have no
\* cluster_id or cluster_size.
C18_ClusterNumbering ==
    DupReturned =>
      LET ids == {DupOut[k].cluster_id : k \in 1 .. Len(DupOut)}
      IN /\ ids = 1 .. Cardinality(ids)
         /\ \A k, l \in 1 .. Len(DupOut) :
              k < l => /\ DupOut[k].cluster_id <= DupOut[l].cluster_id
                       /\ DupOut[k].path # DupOut[l].path
                       /\ DupBefore(DupOut[k].path, DupOut[l].path)
         /\ \A k \in 1 .. Len(DupOut) :
              /\ DupOut[k].cluster_size
                   = Cardinality({l \in 1 .. Len(DupOut) :
                                    DupOut[l].cluster_id = DupOut[k].cluster_id})
              /\ DupOut[k].path \in 1 .. Len(all_rows)
              /\ [f \in DOMAIN DupOut[k] \ {"cluster_id", "cluster_size"} |-> DupOut[k][f]]
                   = all_rows[DupOut[k].path]
         /\ \A i \in 1 .. Len(all_rows) :
              /\ "cluster_id" \notin DOMAIN all_rows[i]
              /\ "cluster_size" \notin DOMAIN all_rows[i]

\* C18 witness: two clusters were returned, numbered 1 and 2.
C18_Witness ==
    /\ DupReturned
    /\ Len(DupOut) = 4
    /\ DupOut[1].cluster_id = 1 /\ DupOut[2].cluster_id = 1
    /\ DupOut[3].cluster_id = 2 /\ DupOut[4].cluster_id = 2
    /\ DupOut[1].path # 1

\* C19: detect_duplicates returns normally for every list of records with
\* coordinates, whatever their timestamp fields hold, a list with
\* timestamps with and without a UTC offset included.
C19_DuplicatesNeverFail ==
    pc = "dups" => ret[1].exc = ""

\* C20 as stated: in the timeline built from normalised records every
\* adjacent pair that shares a time basis has an elapsed time >= 0 on that
\* basis, and analyze_movement reports no negative delta_s.
C20_Chronological ==
    /\ Built =>
         \A i \in Pairs :
           SharedBasis(timeline[i], timeline[i + 1]) # ""
             => Elapsed(timeline[i], timeline[i + 1]) >= 0
    /\ pc = "movement" =>
         \A i \in Pairs :
           segments[1].ret.val[i].delta_s # None => segments[1].ret.val[i].delta_s[1] >= 0

\* Pair i of the timeline goes from a UTC-bound point to a naive-only point.
BoundaryPair(i) ==
    /\ HasUtc(timeline[i])
    /\ ~HasUtc(timeline[i + 1]) /\ HasNaive(timeline[i + 1])

\* C20 amended: every adjacent pair compared on the dt_utc basis, and every
\* pair of two naive-only points, has an elapsed time >= 0; an elapsed time
\* below 0, and a negative delta_s of analyze_movement, occur only on a pair
\* that goes from a UTC-bound point to a naive-only point.
C20_ChronologicalPerBasis ==
    /\ Built =>
         \A i \in Pairs :
           (SharedBasis(timeline[i], timeline[i + 1]) # "" /\ ~BoundaryPair(i))
             => Elapsed(timeline[i], timeline[i + 1]) >= 0
    /\ pc = "movement" =>
         \A i \in Pairs :
           (segments[1].ret.val[i].delta_s # None /\ ~BoundaryPair(i))
             => segments[1].ret.val[i].delta_s[1] >= 0

\* C20 witness: analyze_movement has reported a negative delta_s for the
\* pair from a UTC-bound point to a naive-only point, and a positive one
\* for the following pair of two naive-only points.
C20_Witness ==
    /\ pc = "movement"
    /\ Len(timeline) = 3
    /\ BoundaryPair(1)
    /\ segments[1].ret.val[1].delta_s # None
    /\ segments[1].ret.val[1].delta_s[1] < 0
    /\ segments[1].ret.val[1].movement = "unknown"
    /\ segments[1].ret.val[2].dt_basis = "dt_naive_iso"
    /\ segments[1].ret.val[2].delta_s[1] > 0

\* C21: analyze_movement reports a distance_m for an adjacent pair exactly
\* when both points have latitude and longitude: also when the pair has no
\* shared time basis and when delta_s <= 0; it is blank only when a
\* coordinate is missing.
C21_DistanceIffCoordinates ==
    pc = "movement" =>
      /\ segments[1].ret.exc = ""
      /\ \A i \in Pairs :
           LET g == segments[1].ret.val[i]
           IN IF HasCoords(timeline[i]) /\ HasCoords(timeline[i + 1])
              THEN g.distance_m
                     = Some(StepM * Abs(timeline[i + 1].lat[1] - timeline[i].lat[1]))
              ELSE g.distance_m = None

\* C21 witness: a distance was reported for a pair of identical timestamps
\* and for a pair without a shared time basis, the points 50 m apart.
C21_Witness ==
    /\ pc = "movement"
    /\ \E i \in Pairs :
          /\ SharedBasis(timeline[i], timeline[i + 1]) # ""
          /\ Elapsed(timeline[i], timeline[i + 1]) = 0
          /\ segments[1].ret.val[i].distance_m # None
          /\ segments[1].ret.val[i].distance_m[1] > 0
    /\ \E i \in Pairs :
          /\ SharedBasis(timeline[i], timeline[i + 1]) = ""
          /\ segments[1].ret.val[i].distance_m # None
          /\ segments[1].ret.val[i].distance_m[1] > 0

\* The Segment analyze_movement makes of pair i of the timeline; its time
\* fields do not depend on the speed thresholds.
SegmentOfPair(i) ==
    segment_of(timeline[i], timeline[i + 1], 3, 180, 180)

NumericOffsetFields ==
    {i \in 1 .. Len(OFFSET_KEYS) : Get(call.item, OFFSET_KEYS[i], OffEmpty).kind = "signed"}

\* The offset of the first such field, and the UTC instant it gives the
\* wall clock of the call.
FirstNumericOffset ==
    call.item[OFFSET_KEYS[CHOOSE i \in NumericOffsetFields :
                            \A j \in NumericOffsetFields : i <= j]].o

UtcByFirstNumericOffset ==
    60 * call.datetime_raw.min + call.datetime_raw.sec - OffsetSeconds(FirstNumericOffset)

\* C23: for a timestamp without an embedded offset, normalize_time takes
\* the offset from the first of OffsetTimeOriginal, OffsetTime, TimeZone,
\* TimeZoneOffset that is present and is a numeric offset, and that field
\* supplies dt_utc and tz_info, also when a field before it is populated
\* with something that is no numeric offset.
C23_FirstNumericOffsetField ==
    (/\ pc = "return"
     /\ call.datetime_raw.kind = "dt" /\ call.datetime_raw.off = None
     /\ NumericOffsetFields # {}
     /\ UtcByFirstNumericOffset \in 0 .. DtMax) =>
      /\ ret[1].exc = ""
      /\ ret[1].val.dt_utc = Some([wall |-> UtcByFirstNumericOffset, sfx |-> <<"Z">>])
      /\ ret[1].val.tz_info = <<"offset", FirstNumericOffset>>
      /\ ~ret[1].val.timezone_assumed

\* A timestamp string that is a timestamp.
StampParses(x) ==
    x.kind = "dt" /\ (x.off # None => (x.off[1].hh < 24 /\ x.off[1].mm < 60))

\* The first of DateTimeOriginal and CreateDate of input record i that
\* yields a time, and the records that have one.
BestStamp(i) ==
    IF StampParses(all_rows[i].DateTimeOriginal) THEN all_rows[i].DateTimeOriginal
    ELSE all_rows[i].CreateDate

BestRecords == {i \in 1 .. Len(all_rows) : StampParses(BestStamp(i))}

BestInstant(i) ==
    60 * BestStamp(i).min + BestStamp(i).sec
      - (IF BestStamp(i).off = None THEN 0 ELSE OffsetSeconds(BestStamp(i).off[1]))

BestBefore(i, j) ==
    BestInstant(i) < BestInstant(j) \/ (BestInstant(i) = BestInstant(j) /\ i < j)

BestNext(i, j) ==
    /\ i \in BestRecords /\ j \in BestRecords /\ BestBefore(i, j)
    /\ ~ \E k \in BestRecords : BestBefore(i, k) /\ BestBefore(k, j)

\* C24: detect_duplicates leaves out of clustering only the records none of
\* whose timestamp fields yields a time: a record with an unparsable
\* DateTimeOriginal and a parseable CreateDate is clustered by its
\* CreateDate, and the records with no parseable field are absent from the
\* output while the others are clustered as if those were not there.
C24_FallbackToParseableField ==
    DupReturned =>
      /\ \A i \in 1 .. Len(all_rows) : i \notin BestRecords => DupIdOf(i) = 0
      /\ \A i, j \in BestRecords :
           BestNext(i, j) =>
             ((/\ Abs(BestInstant(j) - BestInstant(i)) <= call.time_s
               /\ StepM * Abs(all_rows[j].lat[1] - all_rows[i].lat[1]) <= call.dist_m)
                <=> (DupIdOf(i) # 0 /\ DupIdOf(i) = DupIdOf(j)))

\* The adjacent pairs of the timeline with a negative elapsed time, and
\* whether a point is in the tail of records without a timestamp.
NegativePairs ==
    {i \in Pairs : /\ SharedBasis(timeline[i], timeline[i + 1]) # ""
                   /\ Elapsed(timeline[i], timeline[i + 1]) < 0}

InTail(r) == ~HasUtc(r) /\ ~HasNaive(r)

\* C25: at most one adjacent pair of the timeline has a negative elapsed
\* time, and it is the pair of the last UTC-bound point and the first
\* naive-only point, compared on the naive basis; a pair has no shared
\* basis only if one of its points is in the tail; detect_gaps returns no
\* Gap for a pair with a negative elapsed time.
C25_OneNegativeBoundaryPair ==
    /\ Built =>
         /\ Cardinality(NegativePairs) <= 1
         /\ \A i \in NegativePairs :
              /\ SharedBasis(timeline[i], timeline[i + 1]) = "dt_naive_iso"
              /\ \A j \in 1 .. i : HasUtc(timeline[j])
              /\ ~HasUtc(timeline[i + 1]) /\ HasNaive(timeline[i + 1])
              /\ \A j \in (i + 1) .. Len(timeline) : ~HasUtc(timeline[j])
         /\ \A i \in Pairs :
              SharedBasis(timeline[i], timeline[i + 1]) = ""
                => (InTail(timeline[i]) \/ InTail(timeline[i + 1]))
    /\ pc = "gaps" =>
         /\ gaps[1].ret.exc = ""
         /\ \A k \in 1 .. Len(gaps[1].ret.val) :
              /\ gaps[1].ret.val[k].after_index \notin NegativePairs
              /\ gaps[1].ret.val[k].gap_seconds >= 0

\* C25 witness: with gap_s = 0 the pair of the last UTC-bound point and the
\* first naive-only point has an elapsed time of -60 s and no Gap, and the
\* pair after it has a Gap.
C25_Witness ==
    /\ pc = "gaps"
    /\ gaps[1].gap_s = 0
    /\ NegativePairs = {1}
    /\ Elapsed(timeline[1], timeline[2]) = -60
    /\ Len(gaps[1].ret.val) = 1
    /\ gaps[1].ret.val[1].after_index = 2

====
